---- MODULE Spec2Model ----
(***************************************************************************)
(* Model of perf/__main__.py: the Benchmarks suite collection, its         *)
(* iteration and name-grouping operations, the filename label policy and   *)
(* the cmd_compare / cmd_show / cmd_hist command flows.                    *)
(*                                                                         *)
(* Python strings are sequences of one-character strings, so that          *)
(* os.path.basename, os.path.splitext, sorted() and "%s:%s" formatting are *)
(* computed character by character.  None is a value distinct from every   *)
(* Python string of the model.                                             *)
(***************************************************************************)
EXTENDS Integers, Sequences, FiniteSets, TLC

\* Largest number of file.json arguments of one command line.
MaxSuites == 3

\* Python's None.
None == <<"NONE">>

\* Truth value of an optional string: None and "" are false.
Truthy(s) == s /= None /\ s /= <<>>

\* str(x) as used by "%s" formatting.
Str(x) == IF x = None THEN <<"N", "o", "n", "e">> ELSE x

\* Code point of a character (ord).
Ord(c) ==
    CASE c = "." -> 46
      [] c = "/" -> 47
      [] c = "B" -> 66
      [] c = "N" -> 78
      [] c = "a" -> 97
      [] c = "b" -> 98
      [] c = "d" -> 100
      [] c = "e" -> 101
      [] c = "j" -> 106
      [] c = "n" -> 110
      [] c = "o" -> 111
      [] c = "t" -> 116
      [] c = "x" -> 120
      [] c = "y" -> 121
      [] OTHER -> 0

\* Python's str < str: lexicographic order on code points.
RECURSIVE StrLess(_, _)
StrLess(a, b) ==
    IF b = <<>> THEN FALSE
    ELSE IF a = <<>> THEN TRUE
    ELSE IF Ord(Head(a)) /= Ord(Head(b)) THEN Ord(Head(a)) < Ord(Head(b))
    ELSE StrLess(Tail(a), Tail(b))

\* sorted(names) for a set of strings: ascending list.
RECURSIVE sorted(_)
sorted(S) ==
    IF S = {} THEN <<>>
    ELSE LET m == CHOOSE x \in S : \A y \in S \ {x} : StrLess(x, y)
         IN  <<m>> \o sorted(S \ {m})

\* str.rfind(c) + 1: position (from 1) of the last c in p, 0 when absent.
rfind(p, c) ==
    LET hits == {i \in 1..Len(p) : p[i] = c}
    IN  IF hits = {} THEN 0 ELSE CHOOSE i \in hits : \A j \in hits : j <= i

\* os.path.basename (posixpath): what follows the last "/".
basename(p) == SubSeq(p, rfind(p, "/") + 1, Len(p))

\* os.path.splitext(p)[0] (genericpath._splitext): cut at the last dot of the
\* last path component, unless that component has only leading dots before it.
splitext0(p) ==
    LET sepIndex == rfind(p, "/")
        dotIndex == rfind(p, ".")
    IN  IF /\ dotIndex > sepIndex
           /\ \E k \in (sepIndex + 1)..(dotIndex - 1) : p[k] /= "."
        THEN SubSeq(p, 1, dotIndex - 1)
        ELSE p

(***************************************************************************)
(* The benchmark files a command line can name.                            *)
(***************************************************************************)
Bench(key, name) == [key |-> key, name |-> name]

Filenames ==
    { <<"a", ".", "j">>,
      <<"d", "/", "a", ".", "j">>,
      <<"a", ".", "t">>,
      <<"b", ".", "j">>,
      <<".", "b">>,
      <<"d", "/", "b">> }

\* Content of each file: the benchmarks BenchmarkSuite.load() returns, in
\* the suite's native order.  A suite always holds at least one benchmark
\* and its benchmark names are unique.
FileBenchmarks(filename) ==
    CASE filename = <<"a", ".", "j">> ->
            <<Bench(1, <<"x", "y">>), Bench(2, <<"x">>), Bench(3, <<"y">>)>>
      [] filename = <<"d", "/", "a", ".", "j">> ->
            <<Bench(4, <<"y">>), Bench(5, <<"x">>), Bench(6, <<"B">>),
              Bench(7, <<"x", "y">>)>>
      [] filename = <<"a", ".", "t">> ->
            <<Bench(8, <<"x">>)>>
      [] filename = <<"b", ".", "j">> ->
            <<Bench(9, None)>>
      [] filename = <<".", "b">> ->
            <<Bench(10, <<>>), Bench(11, <<"x">>)>>
      [] filename = <<"d", "/", "b">> ->
            <<Bench(12, <<"x">>), Bench(13, None), Bench(14, <<"B">>)>>

\* perf.BenchmarkSuite.load(filename); id is the identity of the new object.
BenchmarkSuite_load(filename, id) ==
    [id |-> id, filename |-> filename, benchmarks |-> FileBenchmarks(filename)]

\* The values of the -b/--name option (None when the option is not given).
NameOptions == {None, <<"x">>}

\* The modelled sub-commands.
Actions == {"show", "hist", "compare", "compare_to"}

\* All sequences over S of length 1..n (nargs='+').
SeqsUpTo(S, n) == UNION {[1..k -> S] : k \in 1..n}

(***************************************************************************)
(* format_filename_func(suites): the label function of a collection.       *)
(***************************************************************************)
\* The set comprehensions of format_filename_func.
base_filenames(suites) ==
    {basename(suites[i].filename) : i \in 1..Len(suites)}

noext_filenames(suites) ==
    {splitext0(filename) : filename \in base_filenames(suites)}

\* Mutation: the extension test is skipped, stems are always used when the
\* basenames are distinct.
format_filename_func_nobase(suites) ==
    IF Cardinality(base_filenames(suites)) /= Len(suites)
    THEN [filename \in Filenames |-> filename]
    ELSE [filename \in Filenames |-> splitext0(basename(filename))]

\* The function returned by format_filename_func, on the known filenames.
format_filename_func(suites) ==
    IF Cardinality(base_filenames(suites)) /= Len(suites)
    THEN [filename \in Filenames |-> filename]
    ELSE IF Cardinality(noext_filenames(suites))
              /= Cardinality(base_filenames(suites))
    THEN [filename \in Filenames |-> basename(filename)]
    ELSE [filename \in Filenames |-> splitext0(basename(filename))]

(***************************************************************************)
(* Collaborators of the collection (perf.BenchmarkSuite, perf._cli).       *)
(***************************************************************************)
\* bench.get_name()
get_name(bench) == bench.name

\* get_benchmark_name(benchmark): the benchmark's own name.
get_benchmark_name(benchmark) == get_name(benchmark)

\* suite.get_benchmarks(): the benchmarks in the suite's native order.
get_benchmarks(suite) == suite.benchmarks

\* suite.get_benchmark(name): the benchmark of the suite called name.
get_benchmark(suite, name) ==
    LET bs == get_benchmarks(suite)
    IN  bs[CHOOSE i \in 1..Len(bs) : get_name(bs[i]) = name]

\* Whether suite._convert_include_benchmark(name) raises KeyError.
include_raises(suite, name) ==
    \A i \in 1..Len(suite.benchmarks) : get_name(suite.benchmarks[i]) /= name

\* suite._convert_include_benchmark(name): keep only the benchmark called name.
convert_include_benchmark(suite, name) ==
    [suite EXCEPT !.benchmarks =
        SelectSeq(suite.benchmarks, LAMBDA b : get_name(b) = name)]

(***************************************************************************)
(* class Benchmarks                                                        *)
(***************************************************************************)
\* Benchmarks.include_benchmark(name): the suites are converted one after
\* the other, in load order; the first KeyError ends the loop through
\* fatal_missing_benchmark.  fatal is the position of the suite that
\* raised, 0 when none did.
RECURSIVE include_from(_, _, _)
include_from(suites, name, i) ==
    IF i > Len(suites) THEN [suites |-> suites, fatal |-> 0]
    ELSE IF include_raises(suites[i], name)
    THEN [suites |-> suites, fatal |-> i]
    ELSE include_from(
            [suites EXCEPT ![i] = convert_include_benchmark(suites[i], name)],
            name, i + 1)

include_benchmark(suites, name) == include_from(suites, name, 1)

\* Benchmarks.get_nsuite()
get_nsuite(suites) == Len(suites)

\* Benchmarks.__len__(): sum of the suites' lengths.
RECURSIVE SumLen(_)
SumLen(suites) ==
    IF suites = <<>> THEN 0
    ELSE Len(Head(suites).benchmarks) + SumLen(Tail(suites))

len(suites) == SumLen(suites)

\* suite_to_name_set, the local function of _group_by_name_names.
RECURSIVE name_set_from(_, _)
name_set_from(benchs, result) ==
    IF benchs = <<>> THEN result
    ELSE name_set_from(Tail(benchs),
            IF Truthy(get_name(Head(benchs)))
            THEN result \cup {get_name(Head(benchs))}
            ELSE result)

suite_to_name_set(suite) == name_set_from(suite.benchmarks, {})

\* Mutation: suite_to_name_set without the "if name" test.
suite_to_name_set_all(suite) ==
    {get_name(suite.benchmarks[i]) : i \in 1..Len(suite.benchmarks)}

RECURSIVE names_and(_, _)
names_and(names, rest) ==
    IF rest = <<>> THEN names
    ELSE names_and(names \cap suite_to_name_set(Head(rest)), Tail(rest))

RECURSIVE names_and_all(_, _)
names_and_all(names, rest) ==
    IF rest = <<>> THEN names
    ELSE names_and_all(names \cap suite_to_name_set_all(Head(rest)), Tail(rest))

\* Mutation of _group_by_name_names: empty and absent names are kept.
group_by_name_names_all(suites) ==
    names_and_all(suite_to_name_set_all(suites[1]), Tail(suites))

\* Benchmarks._group_by_name_names(): names = set of suites[0], then
\* names &= set of every later suite.
group_by_name_names(suites) ==
    names_and(suite_to_name_set(suites[1]), Tail(suites))

\* Benchmarks.__iter__, show_name: more than one benchmark in the collection.
iter_show_name(suites) == len(suites) > 1

\* Benchmarks.__iter__, show_filename (also group_by_name's).
show_filename_of(suites) == get_nsuite(suites) > 1

\* Mutation of iter_title: the label prefix is used for a single suite too.
iter_title_prefixed(show_name, show_filename, filename, name) ==
    IF show_name THEN Str(filename) \o <<":">> \o Str(name) ELSE None

\* Benchmarks.__iter__, the title of one item: "%s:%s" % (filename, title).
iter_title(show_name, show_filename, filename, name) ==
    IF show_name
    THEN IF show_filename
         THEN Str(filename) \o <<":">> \o Str(name)
         ELSE name
    ELSE None

\* Mutation of iter_is_last: the last benchmark of every suite is flagged.
iter_is_last_any_suite(suites, suite_index, bench_index) ==
    bench_index = Len(get_benchmarks(suites[suite_index]))

\* Benchmarks.__iter__, is_last = last_suite and last_benchmark.
iter_is_last(suites, suite_index, bench_index) ==
    LET last_suite == (suite_index = Len(suites))
        last_benchmark ==
            (bench_index = Len(get_benchmarks(suites[suite_index])))
    IN  last_suite /\ last_benchmark

\* The DataItem yielded for benchmark bench_index of suite suite_index.
DataItem(suites, g, suite_index, bench_index) ==
    LET suite == suites[suite_index]
        filename == g.format_filename[suite.filename]
        benchmark == get_benchmarks(suite)[bench_index]
        name == get_benchmark_name(benchmark)
    IN  [suite |-> suite,
         filename |-> filename,
         benchmark |-> benchmark,
         name |-> name,
         title |-> iter_title(g.show_name, g.show_filename, filename, name),
         is_last |-> iter_is_last(suites, suite_index, bench_index)]

\* The next (suite, benchmark) position of the two nested for loops, from
\* candidate position (si, bi); suite_index 0 when the loops are exhausted.
RECURSIVE next_pos(_, _, _)
next_pos(suites, si, bi) ==
    IF si > Len(suites) THEN [suite_index |-> 0, bench_index |-> 0]
    ELSE IF bi <= Len(get_benchmarks(suites[si]))
    THEN [suite_index |-> si, bench_index |-> bi]
    ELSE next_pos(suites, si + 1, 1)

\* Mutation of group_names: the names are taken in descending order.
RECURSIVE reversed(_)
reversed(s) == IF s = <<>> THEN <<>> ELSE reversed(Tail(s)) \o <<Head(s)>>

group_names_desc(suites) == reversed(sorted(group_by_name_names(suites)))

\* group_by_name: names = sorted(self._group_by_name_names()).
group_names(suites) == sorted(group_by_name_names(suites))

\* Mutation of group_title: the name is shown whenever a group exists.
group_title_always(show_name, show_filename, name, filename) ==
    IF ~show_filename THEN name ELSE filename

\* group_by_name, the title of one GroupItem.
group_title(show_name, show_filename, name, filename) ==
    IF show_name
    THEN IF ~show_filename THEN name ELSE filename
    ELSE None

\* Benchmarks.group_by_name(): the list of GroupItem2.
group_by_name(suites) ==
    LET format_filename == format_filename_func(suites)
        show_filename == show_filename_of(suites)
        names == group_names(suites)
        show_name == Len(names) > 1
    IN  [index \in 1..Len(names) |->
            [name |-> names[index],
             benchmarks |->
                [k \in 1..Len(suites) |->
                    [benchmark |-> get_benchmark(suites[k], names[index]),
                     title |-> group_title(show_name, show_filename,
                                   names[index],
                                   format_filename[suites[k].filename]),
                     filename |-> format_filename[suites[k].filename]]],
             is_last |-> (index = Len(names))]]

\* Mutation of ignored_of: anonymous benchmarks are skipped.
ignored_of_named(suite, names) ==
    SelectSeq(suite.benchmarks,
              LAMBDA bench : Truthy(get_name(bench)) /\ get_name(bench) \notin names)

\* group_by_name_ignored, the ignored list built for one suite.
ignored_of(suite, names) ==
    SelectSeq(suite.benchmarks, LAMBDA bench : get_name(bench) \notin names)

\* Mutation of ignored_pairs: the pair is yielded even when ignored is empty.
RECURSIVE ignored_pairs_every(_, _)
ignored_pairs_every(rest, names) ==
    IF rest = <<>> THEN <<>>
    ELSE <<[suite |-> Head(rest), ignored |-> ignored_of(Head(rest), names)]>>
         \o ignored_pairs_every(Tail(rest), names)

\* group_by_name_ignored, the loop over the suites: "if ignored: yield".
RECURSIVE ignored_pairs(_, _)
ignored_pairs(rest, names) ==
    IF rest = <<>> THEN <<>>
    ELSE LET ignored == ignored_of(Head(rest), names)
         IN  (IF ignored /= <<>>
              THEN <<[suite |-> Head(rest), ignored |-> ignored]>>
              ELSE <<>>)
             \o ignored_pairs(Tail(rest), names)

\* list(Benchmarks.group_by_name_ignored())
group_by_name_ignored(suites) ==
    ignored_pairs(suites, group_by_name_names(suites))

(***************************************************************************)
(* One run of "python -m perf <action> ...".                               *)
(***************************************************************************)
VARIABLES
    args,            \* the parsed command line
    suites,          \* Benchmarks.suites
    pc,              \* position of the command
    exit_status,     \* status of sys.exit(), 0 while none was called
    stderr,          \* the fatal messages printed
    gen,             \* the generator object of Benchmarks.__iter__
    yielded,         \* the DataItems yielded so far
    ignored,         \* cmd_hist: list(data.group_by_name_ignored())
    groups,          \* cmd_hist: data.group_by_name()
    compare_called,  \* whether compare_suites() was called
    by_speed         \* cmd_compare: the by_speed local

\* State of cmd_slowest, of _display_common_metadata, of cmd_convert and of
\* perf._system (System and its operations); each command is a run of its own.
VARIABLES
    slowest_out,     \* cmd_slowest: the "#index: name (duration)" lines, per suite
    metadatas0,      \* _display_common_metadata: the mappings as passed
    metadatas,       \* _display_common_metadata: the mappings, mutated in place
    meta_pc,         \* position of _display_common_metadata
    common_shown,    \* the mappings given to display_metadata
    conv_args,       \* cmd_convert: the parsed command line
    conv_suite,      \* cmd_convert: the benchmarks of the suite being modified
    conv_pc,         \* cmd_convert: the next statement
    conv_steps,      \* cmd_convert: the modification steps that succeeded
    conv_failed,     \* cmd_convert: the step that failed, "" when none did
    conv_written,    \* cmd_convert: whether suite.dump() was called
    sys_env,         \* the machine System runs on and the action of main()
    msr,             \* register MSR_IA32_MISC_ENABLE of each CPU
    no_turbo,        \* content of intel_pstate/no_turbo
    sys_pc,          \* System.main: the current loop
    sys_op,          \* System.main: position in self.operations
    sys_cpu,         \* TurboBoostMSR.read/write: the cpu of the loop
    cpu_states,      \* TurboBoostMSR.cpu_states
    ps_enabled,      \* TurboBoostIntelPstate.enabled
    sched_msgs,      \* LinuxScheduler.msgs
    errors,          \* System.errors
    has_messages,    \* System.has_messages
    printed,         \* the lines printed on stdout
    cmds,            \* the rdmsr and wrmsr commands run, with their results
    ps_writes,       \* the writes into no_turbo: content and content before
    ps_calls         \* number of TurboBoostIntelPstate methods called

slow_vars == <<slowest_out>>
meta_vars == <<metadatas0, metadatas, meta_pc, common_shown>>
conv_vars == <<conv_args, conv_suite, conv_pc, conv_steps, conv_failed,
               conv_written>>
sys_vars == <<sys_env, msr, no_turbo, sys_pc, sys_op, sys_cpu, cpu_states,
              ps_enabled, sched_msgs, errors, has_messages, printed, cmds,
              ps_writes, ps_calls>>
other_vars == <<slow_vars, meta_vars, conv_vars, sys_vars>>
main_vars == <<args, suites, pc, exit_status, stderr, gen, yielded, ignored,
               groups, compare_called, by_speed>>

vars == <<main_vars, other_vars>>

\* The commands that are not run.
SlowIdle == slowest_out = <<>>

MetaIdle ==
    /\ metadatas0 = <<>>
    /\ metadatas = <<>>
    /\ meta_pc = "idle"
    /\ common_shown = <<>>

ConvIdle ==
    /\ conv_args = [input_filename |-> <<>>]
    /\ conv_suite = <<>>
    /\ conv_pc = "idle"
    /\ conv_steps = <<>>
    /\ conv_failed = ""
    /\ conv_written = FALSE

SysIdle ==
    /\ sys_env = [action |-> "idle"]
    /\ msr = <<>>
    /\ no_turbo = ""
    /\ sys_pc = "idle"
    /\ sys_op = 0
    /\ sys_cpu = 0
    /\ cpu_states = <<>>
    /\ ps_enabled = "None"
    /\ sched_msgs = <<>>
    /\ errors = <<>>
    /\ has_messages = FALSE
    /\ printed = <<>>
    /\ cmds = <<>>
    /\ ps_writes = <<>>
    /\ ps_calls = 0

OtherIdle == SlowIdle /\ MetaIdle /\ ConvIdle /\ SysIdle

NoGen == [show_name |-> FALSE, show_filename |-> FALSE,
          format_filename |-> [filename \in Filenames |-> filename],
          suite_index |-> 0, bench_index |-> 0]

Init ==
    /\ args \in [action : Actions,
                 group_by_speed : BOOLEAN,
                 name : NameOptions,
                 filenames : SeqsUpTo(Filenames, MaxSuites)]
    /\ suites = <<>>
    /\ pc = "load"
    /\ exit_status = 0
    /\ stderr = <<>>
    /\ gen = NoGen
    /\ yielded = <<>>
    /\ ignored = <<>>
    /\ groups = <<>>
    /\ compare_called = FALSE
    /\ by_speed = FALSE
    /\ OtherIdle

\* load_benchmarks / Benchmarks.load_benchmark_suites: one turn of the loop
\* over args.filenames, Benchmarks.load_benchmark_suite(filename).
LoadBenchmarkSuite ==
    /\ pc = "load"
    /\ Len(suites) < Len(args.filenames)
    /\ suites' = Append(suites,
                    BenchmarkSuite_load(args.filenames[Len(suites) + 1],
                                        Len(suites) + 1))
    /\ pc' = IF Len(suites') < Len(args.filenames) THEN "load"
             ELSE IF Truthy(args.name) THEN "include"
             ELSE "cmd"
    /\ UNCHANGED <<args, exit_status, stderr, gen, yielded, ignored, groups,
                   compare_called, by_speed>>
    /\ UNCHANGED other_vars

\* load_benchmarks: data.include_benchmark(args.name), with
\* fatal_missing_benchmark(suite, name) on KeyError.
IncludeBenchmark ==
    /\ pc = "include"
    /\ LET r == include_benchmark(suites, args.name)
       IN  /\ suites' = r.suites
           /\ IF r.fatal /= 0
              THEN /\ stderr' = Append(stderr,
                          [error |-> "missing_benchmark",
                           filename |-> suites[r.fatal].filename,
                           name |-> args.name])
                   /\ exit_status' = 1
                   /\ pc' = "exit"
              ELSE /\ pc' = "cmd"
                   /\ UNCHANGED <<stderr, exit_status>>
    /\ UNCHANGED <<args, gen, yielded, ignored, groups, compare_called,
                   by_speed>>
    /\ UNCHANGED other_vars

\* Mutation of CmdCompare: one suite is enough and by_speed is not checked.
CmdCompareUnchecked ==
    /\ pc = "cmd"
    /\ args.action \in {"compare", "compare_to"}
    /\ by_speed' = args.group_by_speed
    /\ IF get_nsuite(suites) < 1
       THEN /\ exit_status' = 1
            /\ pc' = "exit"
            /\ stderr' = Append(stderr, [error |-> "need_two_files"])
            /\ UNCHANGED compare_called
       ELSE /\ compare_called' = TRUE
            /\ pc' = "done"
            /\ UNCHANGED <<exit_status, stderr>>
    /\ UNCHANGED <<args, suites, gen, yielded, ignored, groups>>
    /\ UNCHANGED other_vars

\* cmd_compare after load_benchmarks(args).
CmdCompare ==
    /\ pc = "cmd"
    /\ args.action \in {"compare", "compare_to"}
    /\ IF get_nsuite(suites) < 2
       THEN /\ exit_status' = 1
            /\ pc' = "exit"
            /\ stderr' = Append(stderr, [error |-> "need_two_files"])
            /\ UNCHANGED <<compare_called, by_speed>>
       ELSE /\ by_speed' = IF args.action = "compare_to"
                           THEN args.group_by_speed
                           ELSE FALSE
            /\ IF by_speed' /\ get_nsuite(suites) /= 2
               THEN /\ exit_status' = 1
                    /\ pc' = "exit"
                    /\ stderr' = Append(stderr, [error |-> "by_speed_two_files"])
                    /\ UNCHANGED compare_called
               ELSE /\ compare_called' = TRUE
                    /\ pc' = "done"
                    /\ UNCHANGED <<exit_status, stderr>>
    /\ UNCHANGED <<args, suites, gen, yielded, ignored, groups>>
    /\ UNCHANGED other_vars

\* cmd_hist after load_benchmarks(args): the ignored list, then the groups.
CmdHist ==
    /\ pc = "cmd"
    /\ args.action = "hist"
    /\ ignored' = group_by_name_ignored(suites)
    /\ groups' = group_by_name(suites)
    /\ pc' = "done"
    /\ UNCHANGED <<args, suites, exit_status, stderr, gen, yielded,
                   compare_called, by_speed>>
    /\ UNCHANGED other_vars

\* cmd_show after load_benchmarks(args): "for item in data" creates the
\* generator; its first lines run format_filename_func and the show flags.
IterStart ==
    /\ pc = "cmd"
    /\ args.action = "show"
    /\ gen' = [show_name |-> iter_show_name(suites),
               show_filename |-> show_filename_of(suites),
               format_filename |-> format_filename_func(suites),
               suite_index |-> 1, bench_index |-> 1]
    /\ pc' = "iter"
    /\ UNCHANGED <<args, suites, exit_status, stderr, yielded, ignored,
                   groups, compare_called, by_speed>>
    /\ UNCHANGED other_vars

\* One next() of the generator: the next DataItem, or StopIteration, which
\* ends the loop and the command.
IterNext ==
    /\ pc = "iter"
    /\ LET pos == next_pos(suites, gen.suite_index, gen.bench_index)
       IN  IF pos.suite_index = 0
           THEN /\ pc' = "done"
                /\ gen' = [gen EXCEPT !.suite_index = Len(suites) + 1,
                                      !.bench_index = 1]
                /\ UNCHANGED yielded
           ELSE /\ yielded' = Append(yielded,
                       DataItem(suites, gen, pos.suite_index, pos.bench_index))
                /\ gen' = [gen EXCEPT !.suite_index = pos.suite_index,
                                      !.bench_index = pos.bench_index + 1]
                /\ UNCHANGED pc
    /\ UNCHANGED <<args, suites, exit_status, stderr, ignored, groups,
                   compare_called, by_speed>>
    /\ UNCHANGED other_vars

Next ==
    \/ LoadBenchmarkSuite
    \/ IncludeBenchmark
    \/ CmdCompare
    \/ CmdHist
    \/ IterStart
    \/ IterNext

Spec == Init /\ [][Next]_vars

(***************************************************************************)
(* Properties                                                              *)
(***************************************************************************)
Range(seq) == {seq[k] : k \in 1..Len(seq)}

Count(seq, x) == Cardinality({k \in 1..Len(seq) : seq[k] = x})

Loaded == suites /= <<>>

HistDone == pc = "done" /\ args.action = "hist"

\* The names that are not empty and that every suite of ss holds.
NonEmptyCommonNames(ss) ==
    {n \in UNION {{b.name : b \in Range(ss[i].benchmarks)} : i \in 1..Len(ss)} :
        /\ n /= None
        /\ n /= <<>>
        /\ \A i \in 1..Len(ss) : \E b \in Range(ss[i].benchmarks) : b.name = n}

OrderingsOf(n) ==
    {f \in [1..n -> 1..n] : \A i, j \in 1..n : f[i] = f[j] => i = j}

\* C1: when include_benchmark(name) ends in the fatal missing-benchmark
\* error, the message names the offending suite and no suite of the
\* collection has been modified.
C1_FatalIncludeModifiesNothing ==
    [][(pc = "include" /\ pc' = "exit") =>
          /\ suites' = suites
          /\ stderr'[Len(stderr')].error = "missing_benchmark"
          /\ \E i \in 1..Len(suites) :
                /\ include_raises(suites[i], args.name)
                /\ stderr'[Len(stderr')].filename = suites[i].filename]_vars

\* C2: on every collection of one or more suites, _group_by_name_names()
\* is the intersection of the suites' sets of non-empty names, whatever the
\* order of the suites; the groups built from it carry exactly these names.
C2_CommonNamesIsIntersection ==
    Loaded =>
        /\ group_by_name_names(suites) = NonEmptyCommonNames(suites)
        /\ \A f \in OrderingsOf(Len(suites)) :
              group_by_name_names([i \in 1..Len(suites) |-> suites[f[i]]])
                 = group_by_name_names(suites)
        /\ HistDone =>
              {groups[g].name : g \in 1..Len(groups)} = NonEmptyCommonNames(suites)

C2_Witness ==
    /\ HistDone
    /\ Len(suites) >= 2
    /\ suites[1].filename /= suites[2].filename
    /\ groups /= <<>>
    /\ \E i \in 1..Len(suites) : \E b \in Range(suites[i].benchmarks) :
          ~Truthy(b.name)

\* The benchmarks reported as ignored for the suite loaded at position i.
IgnoredFor(i) ==
    LET hits == {k \in 1..Len(ignored) : ignored[k].suite.id = i}
    IN  IF hits = {} THEN <<>> ELSE ignored[CHOOSE k \in hits : TRUE].ignored

\* The benchmarks of suite i whose name is a common name.
CommonOf(i) ==
    SelectSeq(suites[i].benchmarks,
              LAMBDA b : b.name \in group_by_name_names(suites))

\* C3: for each suite, the ignored benchmarks and the benchmarks with a
\* common name together are exactly the suite's benchmarks, each once.
C3_IgnoredAndCommonPartition ==
    HistDone =>
        \A i \in 1..Len(suites) :
            /\ Cardinality({k \in 1..Len(ignored) : ignored[k].suite.id = i}) <= 1
            /\ Range(IgnoredFor(i)) \cup Range(CommonOf(i))
                  = Range(suites[i].benchmarks)
            /\ \A b \in Range(suites[i].benchmarks) :
                  Count(IgnoredFor(i), b) + Count(CommonOf(i), b) = 1

C3_Witness ==
    /\ HistDone
    /\ Len(suites) >= 2
    /\ \E i \in 1..Len(suites) :
          /\ CommonOf(i) /= <<>>
          /\ \E b \in Range(IgnoredFor(i)) : b.name = None

\* C4: group_by_name() has one group per common name, in ascending order of
\* name, each with one member per suite, the i-th taken from the i-th suite.
C4_OneGroupPerCommonName ==
    HistDone =>
        /\ Len(groups) = Cardinality(group_by_name_names(suites))
        /\ {groups[g].name : g \in 1..Len(groups)} = group_by_name_names(suites)
        /\ \A g, h \in 1..Len(groups) :
              g < h => StrLess(groups[g].name, groups[h].name)
        /\ \A g \in 1..Len(groups) :
              /\ Len(groups[g].benchmarks) = Len(suites)
              /\ \A i \in 1..Len(suites) :
                    /\ groups[g].benchmarks[i].benchmark
                          \in Range(suites[i].benchmarks)
                    /\ groups[g].benchmarks[i].benchmark.name = groups[g].name

C4_Witness ==
    /\ HistDone
    /\ Len(suites) >= 2
    /\ Len(groups) >= 3

\* C5: the labels of two loaded suites whose filenames differ are different,
\* as computed by format_filename_func and as carried by the yielded items
\* and the group members.
C5_LabelsInjective ==
    /\ Loaded =>
          \A i, j \in 1..Len(suites) :
              suites[i].filename /= suites[j].filename =>
                  format_filename_func(suites)[suites[i].filename]
                     /= format_filename_func(suites)[suites[j].filename]
    /\ \A k, m \in 1..Len(yielded) :
          yielded[k].suite.filename /= yielded[m].suite.filename =>
              yielded[k].filename /= yielded[m].filename
    /\ \A g \in 1..Len(groups) : \A i, j \in 1..Len(groups[g].benchmarks) :
          suites[i].filename /= suites[j].filename =>
              groups[g].benchmarks[i].filename /= groups[g].benchmarks[j].filename

C5_Witness ==
    \E k, m \in 1..Len(yielded) :
        /\ yielded[k].suite.filename /= yielded[m].suite.filename
        /\ splitext0(basename(yielded[k].suite.filename))
              = splitext0(basename(yielded[m].suite.filename))
        /\ yielded[k].filename = basename(yielded[k].suite.filename)
        /\ yielded[k].filename /= yielded[m].filename

\* Whether grouping by speed is requested on the command line.
GroupBySpeedRequested == args.action = "compare_to" /\ args.group_by_speed

\* C6: compare_suites is called only with at least 2 suites and, when
\* grouping by speed, exactly 2; otherwise the command has exit status 1 and
\* compare_suites is not called; by_speed is never set for 'compare'.
C6_CompareValidatedFirst ==
    /\ compare_called =>
          /\ get_nsuite(suites) >= 2
          /\ by_speed => get_nsuite(suites) = 2
          /\ by_speed = GroupBySpeedRequested
    /\ (/\ args.action \in {"compare", "compare_to"}
        /\ pc \in {"done", "exit"}
        /\ ~(/\ get_nsuite(suites) >= 2
             /\ GroupBySpeedRequested => get_nsuite(suites) = 2))
          => pc = "exit" /\ exit_status = 1 /\ ~compare_called
    /\ args.action = "compare" => ~by_speed

C6_Witness ==
    /\ pc = "exit"
    /\ args.action = "compare_to"
    /\ args.group_by_speed
    /\ get_nsuite(suites) = 3
    /\ exit_status = 1
    /\ ~compare_called

\* C7: the title of a yielded item is None when the collection is one suite
\* of one benchmark; otherwise it is the benchmark's name, prefixed with
\* "<label>:" exactly when more than one suite is loaded.
C7_ItemTitle ==
    \A k \in 1..Len(yielded) :
        LET item == yielded[k]
            label == format_filename_func(suites)[item.suite.filename]
        IN  item.title =
                IF Len(suites) = 1 /\ Len(suites[1].benchmarks) = 1
                THEN None
                ELSE IF Len(suites) > 1
                THEN label \o <<":">> \o Str(item.benchmark.name)
                ELSE item.benchmark.name

C7_Witness ==
    /\ pc = "done"
    /\ args.action = "show"
    /\ Len(suites) = 2
    /\ Len(yielded) = 2
    /\ yielded[1].title /= None
    /\ yielded[2].title /= None

\* The (suite, benchmark) pairs of the collection, suite by suite in load
\* order and in each suite's native order.
RECURSIVE Flatten(_)
Flatten(ss) ==
    IF ss = <<>> THEN <<>>
    ELSE [k \in 1..Len(Head(ss).benchmarks) |->
             <<Head(ss), Head(ss).benchmarks[k]>>] \o Flatten(Tail(ss))

\* C8: the items are yielded suite by suite in load order and in native
\* order within a suite; is_last is true for the last item of the full
\* iteration and for no other item.
C8_OrderAndSingleLast ==
    /\ Len(yielded) <= Len(Flatten(suites))
    /\ \A k \in 1..Len(yielded) :
          /\ <<yielded[k].suite, yielded[k].benchmark>> = Flatten(suites)[k]
          /\ yielded[k].is_last <=> (k = Len(Flatten(suites)))
    /\ (pc = "done" /\ args.action = "show") =>
          /\ Len(yielded) = Len(Flatten(suites))
          /\ Cardinality({k \in 1..Len(yielded) : yielded[k].is_last}) = 1
          /\ yielded[Len(yielded)].is_last

C8_Witness ==
    /\ pc = "done"
    /\ args.action = "show"
    /\ Len(suites) >= 2
    /\ Len(suites[1].benchmarks) >= 2
    /\ Len(yielded) >= 4
    /\ yielded[Len(yielded)].is_last

\* C9: the title of a group member is None when there is exactly one common
\* name; otherwise the group's name with one suite loaded, and the member
\* suite's label with more than one.
C9_GroupMemberTitle ==
    HistDone =>
        \A g \in 1..Len(groups) : \A i \in 1..Len(groups[g].benchmarks) :
            groups[g].benchmarks[i].title =
                IF Cardinality(group_by_name_names(suites)) = 1
                THEN None
                ELSE IF Len(suites) = 1
                THEN groups[g].name
                ELSE format_filename_func(suites)[suites[i].filename]

C9_Witness ==
    /\ HistDone
    /\ Len(suites) >= 2
    /\ Len(groups) >= 2
    /\ groups[1].benchmarks[2].title /= None

\* The positions of the suites that hold a benchmark without a common name.
SuitesWithIgnored ==
    {i \in 1..Len(suites) :
        \E b \in Range(suites[i].benchmarks) :
            b.name \notin group_by_name_names(suites)}

\* C10: group_by_name_ignored() yields, in load order, one pair for each
\* suite holding a benchmark without a common name and for no other suite,
\* the list being these benchmarks in the suite's order; with no common name
\* every benchmark is ignored and group_by_name() is empty.
C10_IgnoredPairs ==
    HistDone =>
        /\ {ignored[k].suite.id : k \in 1..Len(ignored)} = SuitesWithIgnored
        /\ \A k, m \in 1..Len(ignored) :
              k < m => ignored[k].suite.id < ignored[m].suite.id
        /\ \A k \in 1..Len(ignored) :
              LET i == ignored[k].suite.id
              IN  /\ ignored[k].suite = suites[i]
                  /\ ignored[k].ignored =
                        SelectSeq(suites[i].benchmarks,
                            LAMBDA b : b.name \notin group_by_name_names(suites))
        /\ group_by_name_names(suites) = {} =>
              /\ groups = <<>>
              /\ Len(ignored) = Len(suites)
              /\ \A i \in 1..Len(suites) :
                    ignored[i].ignored = suites[i].benchmarks

C10_Witness ==
    /\ HistDone
    /\ Len(ignored) >= 1
    /\ Len(ignored) < Len(suites)
    /\ groups /= <<>>

(***************************************************************************)
(* _display_common_metadata(metadatas)                                     *)
(*                                                                         *)
(* A metadata mapping (a dict) is a function from the keys it holds to     *)
(* their values.                                                           *)
(***************************************************************************)
\* Largest number of mappings passed to _display_common_metadata.
MaxMetadatas == 2

MetaKeys == {"name", "a", "b"}

MetaValues == {"v", "w"}

Mappings == UNION {[K -> MetaValues] : K \in SUBSET MetaKeys}

\* dict.pop(key, None), as a new value of the dict.
dict_pop(metadata, key) ==
    [k \in (DOMAIN metadata) \ {key} |-> metadata[k]]

\* perf._metadata._common_metadata(metadatas): the key-value pairs present
\* with the same value in every mapping.
common_metadata(ms) ==
    IF ms = <<>> THEN <<>>
    ELSE LET K == {k \in DOMAIN ms[1] :
                     \A i \in 1..Len(ms) :
                        k \in DOMAIN ms[i] /\ ms[i][k] = ms[1][k]}
         IN  [k \in K |-> ms[1][k]]

\* "for metadata in metadatas: metadata.pop('name', None)"
pop_name(ms) == [i \in 1..Len(ms) |-> dict_pop(ms[i], "name")]

\* Mutation of pop_common: the keys are popped from the first mapping only.
pop_common_first(ms, common) ==
    [i \in 1..Len(ms) |->
        IF i = 1
        THEN [k \in (DOMAIN ms[i]) \ (DOMAIN common) |-> ms[i][k]]
        ELSE ms[i]]

\* "for key in common_metadata: for metadata in metadatas: metadata.pop(key, None)"
pop_common(ms, common) ==
    [i \in 1..Len(ms) |->
        [k \in (DOMAIN ms[i]) \ (DOMAIN common) |-> ms[i][k]]]

\* _display_common_metadata(metadatas): the mappings when it returns and the
\* mappings it gave to display_metadata.
display_common_metadata(ms) ==
    IF Len(ms) < 2
    THEN [metadatas |-> ms, shown |-> <<>>]
    ELSE LET named == pop_name(ms)
             common == common_metadata(named)
         IN  [metadatas |-> pop_common(named, common),
              shown |-> IF DOMAIN common /= {} THEN <<common>> ELSE <<>>]

\* The commands of the other specifications are not run.
MainIdle ==
    /\ args = [action |-> "idle"]
    /\ suites = <<>>
    /\ pc = "idle"
    /\ exit_status = 0
    /\ stderr = <<>>
    /\ gen = NoGen
    /\ yielded = <<>>
    /\ ignored = <<>>
    /\ groups = <<>>
    /\ compare_called = FALSE
    /\ by_speed = FALSE

InitMeta ==
    /\ metadatas0 \in UNION {[1..n -> Mappings] : n \in 0..MaxMetadatas}
    /\ metadatas = metadatas0
    /\ meta_pc = "call"
    /\ common_shown = <<>>
    /\ MainIdle /\ SlowIdle /\ ConvIdle /\ SysIdle

\* cmd_show with --metadata: _display_common_metadata(metadatas).
DisplayCommonMetadata ==
    /\ meta_pc = "call"
    /\ LET r == display_common_metadata(metadatas)
       IN  /\ metadatas' = r.metadatas
           /\ common_shown' = r.shown
    /\ meta_pc' = "done"
    /\ UNCHANGED <<metadatas0, main_vars, slow_vars, conv_vars, sys_vars>>

NextMeta == DisplayCommonMetadata

MetaSpec == InitMeta /\ [][NextMeta]_vars

\* The keys other than 'name' that the mappings passed all hold with one value.
CommonKeys0 ==
    {k \in MetaKeys \ {"name"} :
        \A i \in 1..Len(metadatas0) :
            /\ k \in DOMAIN metadatas0[i]
            /\ metadatas0[i][k] = metadatas0[1][k]}

\* C11: _display_common_metadata leaves fewer than 2 mappings unchanged; from
\* 2 or more mappings it removes 'name' and every common key from every
\* mapping, after which no key is held with one value by all the mappings,
\* and every other key is still held with its value.
C11_OnlyDifferencesRemain ==
    meta_pc = "done" =>
        /\ Len(metadatas) = Len(metadatas0)
        /\ Len(metadatas0) < 2 => metadatas = metadatas0
        /\ Len(metadatas0) >= 2 =>
              /\ \A i \in 1..Len(metadatas) :
                    /\ "name" \notin DOMAIN metadatas[i]
                    /\ \A k \in CommonKeys0 : k \notin DOMAIN metadatas[i]
              /\ ~ \E k \in MetaKeys :
                    \A i \in 1..Len(metadatas) :
                        /\ k \in DOMAIN metadatas[i]
                        /\ metadatas[i][k] = metadatas[1][k]
              /\ \A i \in 1..Len(metadatas) :
                    \A k \in (DOMAIN metadatas0[i]) \ ({"name"} \cup CommonKeys0) :
                        /\ k \in DOMAIN metadatas[i]
                        /\ metadatas[i][k] = metadatas0[i][k]

C11_Witness ==
    /\ meta_pc = "done"
    /\ Len(metadatas0) = 2
    /\ CommonKeys0 = {"a"}
    /\ "name" \in DOMAIN metadatas0[1]
    /\ "b" \in DOMAIN metadatas0[1] \cap DOMAIN metadatas0[2]
    /\ "b" \in DOMAIN metadatas[1] \cap DOMAIN metadatas[2]
    /\ common_shown /= <<>>

(***************************************************************************)
(* perf/_system.py                                                         *)
(*                                                                         *)
(* The value of a register is the set of the positions of its bits that    *)
(* are set.  The text rdmsr prints and the "%#x" text given to wrmsr are   *)
(* sequences of hexadecimal digits, most significant first.                *)
(***************************************************************************)
\* Largest number of logical CPUs of the machine.
MaxCpus == 2

MSR_IA32_MISC_ENABLE_TURBO_DISABLE_BIT == 38

\* 2^b for the bits of one hexadecimal digit.
Pow2(b) == CASE b = 0 -> 1 [] b = 1 -> 2 [] b = 2 -> 4 [] b = 3 -> 8

\* The hexadecimal digit at position j (0 is the least significant).
HexDigit(value, j) ==
    LET bit(b) == IF 4 * j + b \in value THEN Pow2(b) ELSE 0
    IN  bit(0) + bit(1) + bit(2) + bit(3)

\* "%x" % value for a 64-bit register: no leading zero, "0" for zero.
to_hex(value) ==
    LET used == {j \in 0..15 : HexDigit(value, j) /= 0}
        top == IF used = {} THEN 0
               ELSE CHOOSE j \in used : \A i \in used : i <= j
    IN  [i \in 1..(top + 1) |-> HexDigit(value, top + 1 - i)]

\* int(stdout, 16)
from_hex(digits) ==
    {4 * (Len(digits) - i) + b : i \in 1..Len(digits), b \in 0..3} \cap
    {n \in 0..(4 * Len(digits)) :
        \E i \in 1..Len(digits), b \in 0..3 :
            /\ n = 4 * (Len(digits) - i) + b
            /\ (digits[i] \div Pow2(b)) % 2 = 1}

\* The values the register can hold before the run.
MsrValues == {{}, {0}, {MSR_IA32_MISC_ENABLE_TURBO_DISABLE_BIT},
              {0, MSR_IA32_MISC_ENABLE_TURBO_DISABLE_BIT}}

\* The value "rdmsr -p<cpu> -x [-f hi:lo] 0x1a0" prints: the register, or
\* its bits lo..hi shifted down to position 0.
rdmsr_value(value, bitfield) ==
    IF bitfield = <<>> THEN value
    ELSE {b - bitfield[2] : b \in {x \in value : bitfield[2] <= x /\ x <= bitfield[1]}}

\* TurboBoostMSR.read_msr(cpu, MSR_IA32_MISC_ENABLE, bitfield) when rdmsr
\* ends as outcome says: the command run, the value returned (<<>> is None)
\* and the errors recorded.
read_msr(cpu, bitfield, outcome) ==
    LET stdout == IF outcome = "ok" THEN to_hex(rdmsr_value(msr[cpu], bitfield))
                  ELSE <<>>
        exitcode == IF outcome = "fail" THEN 1 ELSE 0
        cmd == [cmd |-> "rdmsr", cpu |-> cpu, bitfield |-> bitfield,
                arg |-> <<>>, exitcode |-> exitcode, stdout |-> stdout]
    IN  IF exitcode /= 0 \/ stdout = <<>>
        THEN [cmd |-> cmd, value |-> <<>>,
              errors |-> <<[op |-> "msr", msg |-> "Failed to read MSR",
                            cpu |-> cpu]>>]
        ELSE [cmd |-> cmd, value |-> <<from_hex(stdout)>>, errors |-> <<>>]

\* Mutation of new_msr_value: the mask replaces the value instead of being
\* combined with it.
new_msr_value_mask_only(value, enabled) ==
    IF ~enabled THEN {MSR_IA32_MISC_ENABLE_TURBO_DISABLE_BIT} ELSE {}

\* TurboBoostMSR.write_cpu: new_value = value | mask, or value & ~mask.
new_msr_value(value, enabled) ==
    LET mask == {MSR_IA32_MISC_ENABLE_TURBO_DISABLE_BIT}
    IN  IF ~enabled THEN value \cup mask ELSE value \ mask

\* TurboBoostMSR.write_cpu(cpu, enabled) when rdmsr and wrmsr end as rd and
\* wr say: the commands run, the register afterwards, the errors recorded
\* and the info lines printed.
write_cpu(cpu, enabled, rd, wr) ==
    LET r == read_msr(cpu, <<>>, rd)
    IN  IF r.value = <<>>
        THEN [cmds |-> <<r.cmd>>, msr |-> msr[cpu], errors |-> r.errors,
              info |-> <<>>]
        ELSE LET value == r.value[1]
                 new_value == new_msr_value(value, enabled)
                 w == [cmd |-> "wrmsr", cpu |-> cpu, bitfield |-> <<>>,
                       arg |-> to_hex(new_value),
                       exitcode |-> IF wr = "ok" THEN 0 ELSE 1,
                       stdout |-> <<>>]
             IN  IF new_value = value
                 THEN [cmds |-> <<r.cmd>>, msr |-> msr[cpu], errors |-> <<>>,
                       info |-> <<>>]
                 ELSE IF w.exitcode /= 0
                 THEN [cmds |-> <<r.cmd, w>>, msr |-> msr[cpu],
                       errors |-> <<[op |-> "msr",
                                     msg |-> "Failed to write into MSR",
                                     cpu |-> cpu]>>,
                       info |-> <<>>]
                 ELSE [cmds |-> <<r.cmd, w>>, msr |-> from_hex(w.arg),
                       errors |-> <<>>,
                       info |-> <<[kind |-> "info", op |-> "msr",
                                   msg |-> IF enabled THEN "Turbo Boost enabled"
                                           ELSE "Turbo Boost disabled",
                                   cpu |-> cpu]>>]

\* dict assignment d[key] = value.
dict_set(d, key, value) ==
    [k \in (DOMAIN d) \cup {key} |-> IF k = key THEN value ELSE d[k]]

\* Mutation of cpu_state_of: the two bit values are exchanged.
cpu_state_of_swapped(states, cpu, bit) ==
    IF bit = {} THEN dict_set(states, cpu, FALSE)
    ELSE IF bit = {0} THEN dict_set(states, cpu, TRUE)
    ELSE states

\* TurboBoostMSR.read_cpu: msr == 0 records True, msr == 1 records False.
cpu_state_of(states, cpu, bit) ==
    IF bit = {} THEN dict_set(states, cpu, TRUE)
    ELSE IF bit = {0} THEN dict_set(states, cpu, FALSE)
    ELSE states

\* TurboBoostMSR.read_cpu(cpu) when rdmsr ends as rd says.
read_cpu(cpu, rd) ==
    LET bit == MSR_IA32_MISC_ENABLE_TURBO_DISABLE_BIT
        r == read_msr(cpu, <<bit, bit>>, rd)
    IN  IF r.value = <<>>
        THEN [cmds |-> <<r.cmd>>, cpu_states |-> cpu_states, errors |-> r.errors]
        ELSE [cmds |-> <<r.cmd>>,
              cpu_states |-> cpu_state_of(cpu_states, cpu, r.value[1]),
              errors |-> IF r.value[1] \in {{}, {0}} THEN <<>>
                         ELSE <<[op |-> "msr", msg |-> "invalid MSR bit",
                                 cpu |-> cpu]>>]

\* TurboBoostIntelPstate.read(): self.enabled afterwards and the errors.
pstate_read(enabled, content) ==
    IF content = "1" THEN [enabled |-> "False", errors |-> <<>>]
    ELSE IF content = "0" THEN [enabled |-> "True", errors |-> <<>>]
    ELSE [enabled |-> enabled,
          errors |-> <<[op |-> "pstate", msg |-> "Invalid no_turbo value",
                        cpu |-> 0]>>]

\* str(bool) of the requested state, as self.enabled holds it.
bool_str(b) == IF b THEN "True" ELSE "False"

\* TurboBoostIntelPstate.write(enabled): self.enabled and the file
\* afterwards, the writes made, the errors recorded, the info lines printed.
pstate_write(enabled) ==
    LET r == IF ps_enabled = "None" THEN pstate_read(ps_enabled, no_turbo)
             ELSE [enabled |-> ps_enabled, errors |-> <<>>]
        content == IF enabled THEN "0" ELSE "1"
    IN  IF ps_enabled = "None" /\ r.enabled = bool_str(enabled)
        THEN [enabled |-> r.enabled, no_turbo |-> no_turbo, writes |-> <<>>,
              errors |-> r.errors, info |-> <<>>]
        ELSE IF sys_env.writable
        THEN [enabled |-> r.enabled, no_turbo |-> content,
              writes |-> <<[content |-> content, before |-> no_turbo]>>,
              errors |-> r.errors,
              info |-> <<[kind |-> "info", op |-> "pstate",
                          msg |-> IF enabled THEN "Turbo Boost enabled"
                                  ELSE "Turbo Boost disabled",
                          cpu |-> 0]>>]
        ELSE [enabled |-> r.enabled, no_turbo |-> no_turbo, writes |-> <<>>,
              errors |-> r.errors \o
                         <<[op |-> "pstate", msg |-> "Failed to write into",
                            cpu |-> 0]>>,
              info |-> <<>>]

\* System.__init__: self.operations.
operations ==
    (IF sys_env.linux THEN <<"sched">> ELSE <<>>)
    \o <<IF sys_env.pstate THEN "pstate" ELSE "msr">>

\* The enabled argument of write(): tune() is write(False), reset() is
\* write(True).
write_enabled == sys_env.action = "reset"

\* System.get_cpus(): tuple(range(cpu_count)).
get_cpus == 0..(sys_env.cpu_count - 1)

\* The machines and the actions of one run.  A cpu_count of 0 is the None
\* of get_logical_cpu_count().  The kernel is recent, no CPU is isolated
\* and rcu_nocbs is not set.  What the chosen operations never read is fixed.
SysEnvs ==
    {e \in [action : {"show", "tune", "reset"},
            linux : BOOLEAN,
            pstate : BOOLEAN,
            cpu_count : 0..MaxCpus,
            release_ok : BOOLEAN,
            writable : BOOLEAN] :
        /\ ~e.linux => e.release_ok
        /\ ~e.pstate => e.writable}

InitSys ==
    /\ sys_env \in SysEnvs
    /\ msr \in [get_cpus -> MsrValues]
    /\ sys_env.pstate => msr = [cpu \in get_cpus |-> {}]
    /\ no_turbo \in {"0", "1", ""}
    /\ ~sys_env.pstate => no_turbo = ""
    /\ sys_pc = "tune"
    /\ sys_op = 1
    /\ sys_cpu = 0
    /\ cpu_states = <<>>
    /\ ps_enabled = "None"
    /\ sched_msgs = <<>>
    /\ errors = <<>>
    /\ has_messages = FALSE
    /\ printed = <<>>
    /\ cmds = <<>>
    /\ ps_writes = <<>>
    /\ ps_calls = 0
    /\ MainIdle /\ SlowIdle /\ MetaIdle /\ ConvIdle

not_sys_vars == <<main_vars, slow_vars, meta_vars, conv_vars>>

\* The end of one turn of a loop of System.main over self.operations.
next_op_pc == IF sys_op < Len(operations) THEN sys_pc
              ELSE IF sys_pc = "tune" THEN "read" ELSE "show"

next_op == IF sys_op < Len(operations) THEN sys_op + 1 ELSE 1

\* System.main, first loop, when action is neither 'tune' nor 'reset': no
\* method is called.
SkipTuneReset ==
    /\ sys_pc = "tune"
    /\ sys_env.action \notin {"tune", "reset"}
    /\ sys_pc' = "read"
    /\ sys_op' = 1
    /\ UNCHANGED <<sys_env, msr, no_turbo, sys_cpu, cpu_states, ps_enabled,
                   sched_msgs, errors, has_messages, printed, cmds, ps_writes,
                   ps_calls>>
    /\ UNCHANGED not_sys_vars

\* Operation.tune() / Operation.reset() of LinuxScheduler: pass.
SchedulerTuneReset ==
    /\ sys_pc = "tune"
    /\ sys_env.action \in {"tune", "reset"}
    /\ operations[sys_op] = "sched"
    /\ sys_pc' = next_op_pc
    /\ sys_op' = next_op
    /\ UNCHANGED <<sys_env, msr, no_turbo, sys_cpu, cpu_states, ps_enabled,
                   sched_msgs, errors, has_messages, printed, cmds, ps_writes,
                   ps_calls>>
    /\ UNCHANGED not_sys_vars

\* TurboBoostMSR.write(enabled): cpus = self.system.get_cpus(), which
\* prints an error and calls sys.exit(1) without a CPU count.
MsrWrite ==
    /\ sys_pc = "tune"
    /\ sys_env.action \in {"tune", "reset"}
    /\ operations[sys_op] = "msr"
    /\ IF sys_env.cpu_count = 0
       THEN /\ printed' = Append(printed,
                   [kind |-> "fatal",
                    msg |-> "unable to get the number of logical CPUs"])
            /\ sys_pc' = "exit"
       ELSE /\ sys_pc' = "write_cpus"
            /\ UNCHANGED printed
    /\ sys_cpu' = 0
    /\ UNCHANGED <<sys_env, msr, no_turbo, sys_op, cpu_states, ps_enabled,
                   sched_msgs, errors, has_messages, cmds, ps_writes, ps_calls>>
    /\ UNCHANGED not_sys_vars

\* TurboBoostMSR.write(enabled): one turn of the loop, write_cpu(cpu, enabled).
MsrWriteCpu ==
    /\ sys_pc = "write_cpus"
    /\ \E rd, wr \in {"ok", "fail"} :
          LET r == write_cpu(sys_cpu, write_enabled, rd, wr)
          IN  /\ cmds' = cmds \o r.cmds
              /\ msr' = [msr EXCEPT ![sys_cpu] = r.msr]
              /\ errors' = errors \o r.errors
              /\ printed' = printed \o r.info
              /\ has_messages' = (has_messages \/ r.info /= <<>>)
    /\ IF sys_cpu + 1 < sys_env.cpu_count
       THEN /\ sys_cpu' = sys_cpu + 1
            /\ UNCHANGED <<sys_pc, sys_op>>
       ELSE /\ sys_cpu' = 0
            /\ sys_pc' = IF sys_op < Len(operations) THEN "tune" ELSE "read"
            /\ sys_op' = next_op
    /\ UNCHANGED <<sys_env, no_turbo, cpu_states, ps_enabled, sched_msgs,
                   ps_writes, ps_calls>>
    /\ UNCHANGED not_sys_vars

\* TurboBoostIntelPstate.tune() / reset(): self.write(enabled).
PstateTuneReset ==
    /\ sys_pc = "tune"
    /\ sys_env.action \in {"tune", "reset"}
    /\ operations[sys_op] = "pstate"
    /\ LET r == pstate_write(write_enabled)
       IN  /\ ps_enabled' = r.enabled
           /\ no_turbo' = r.no_turbo
           /\ ps_writes' = ps_writes \o r.writes
           /\ errors' = errors \o r.errors
           /\ printed' = printed \o r.info
           /\ has_messages' = (has_messages \/ r.info /= <<>>)
    /\ sys_pc' = next_op_pc
    /\ sys_op' = next_op
    /\ ps_calls' = ps_calls + 1
    /\ UNCHANGED <<sys_env, msr, sys_cpu, cpu_states, sched_msgs, cmds>>
    /\ UNCHANGED not_sys_vars

\* LinuxScheduler.read(): the errors it records and the messages it keeps.
SchedulerRead ==
    /\ sys_pc = "read"
    /\ operations[sys_op] = "sched"
    /\ IF sys_env.cpu_count = 0
       THEN /\ errors' = Append(errors,
                   [op |-> "sched", msg |-> "Unable to get the number of CPUs",
                    cpu |-> 0])
            /\ UNCHANGED sched_msgs
       ELSE IF ~sys_env.release_ok
       THEN /\ errors' = Append(errors,
                   [op |-> "sched", msg |-> "Failed to get the Linux version",
                    cpu |-> 0])
            /\ UNCHANGED sched_msgs
       ELSE /\ sched_msgs' =
                   IF sys_env.cpu_count > 1
                   THEN <<"Use isolcpus=<cpu list> kernel parameter",
                          "Use rcu_nocbs=<cpu list> kernel parameter">>
                   ELSE <<>>
            /\ UNCHANGED errors
    /\ sys_pc' = next_op_pc
    /\ sys_op' = next_op
    /\ UNCHANGED <<sys_env, msr, no_turbo, sys_cpu, cpu_states, ps_enabled,
                   has_messages, printed, cmds, ps_writes, ps_calls>>
    /\ UNCHANGED not_sys_vars

\* TurboBoostMSR.read(): cpus = self.system.get_cpus().
MsrRead ==
    /\ sys_pc = "read"
    /\ operations[sys_op] = "msr"
    /\ IF sys_env.cpu_count = 0
       THEN /\ printed' = Append(printed,
                   [kind |-> "fatal",
                    msg |-> "unable to get the number of logical CPUs"])
            /\ sys_pc' = "exit"
       ELSE /\ sys_pc' = "read_cpus"
            /\ UNCHANGED printed
    /\ sys_cpu' = 0
    /\ UNCHANGED <<sys_env, msr, no_turbo, sys_op, cpu_states, ps_enabled,
                   sched_msgs, errors, has_messages, cmds, ps_writes, ps_calls>>
    /\ UNCHANGED not_sys_vars

\* TurboBoostMSR.read(): one turn of the loop, read_cpu(cpu).
MsrReadCpu ==
    /\ sys_pc = "read_cpus"
    /\ \E rd \in {"ok", "fail"} :
          LET r == read_cpu(sys_cpu, rd)
          IN  /\ cmds' = cmds \o r.cmds
              /\ cpu_states' = r.cpu_states
              /\ errors' = errors \o r.errors
    /\ IF sys_cpu + 1 < sys_env.cpu_count
       THEN /\ sys_cpu' = sys_cpu + 1
            /\ UNCHANGED <<sys_pc, sys_op>>
       ELSE /\ sys_cpu' = 0
            /\ sys_pc' = IF sys_op < Len(operations) THEN "read" ELSE "show"
            /\ sys_op' = next_op
    /\ UNCHANGED <<sys_env, msr, no_turbo, ps_enabled, sched_msgs,
                   has_messages, printed, ps_writes, ps_calls>>
    /\ UNCHANGED not_sys_vars

\* TurboBoostIntelPstate.read()
PstateRead ==
    /\ sys_pc = "read"
    /\ operations[sys_op] = "pstate"
    /\ LET r == pstate_read(ps_enabled, no_turbo)
       IN  /\ ps_enabled' = r.enabled
           /\ errors' = errors \o r.errors
    /\ sys_pc' = next_op_pc
    /\ sys_op' = next_op
    /\ ps_calls' = ps_calls + 1
    /\ UNCHANGED <<sys_env, msr, no_turbo, sys_cpu, cpu_states, sched_msgs,
                   has_messages, printed, cmds, ps_writes>>
    /\ UNCHANGED not_sys_vars

\* The lines printed by the show() of the operations, in order.
RECURSIVE show_lines(_)
show_lines(ops) ==
    IF ops = <<>> THEN <<>>
    ELSE (CASE Head(ops) = "sched" ->
                 [i \in 1..Len(sched_msgs) |->
                     [kind |-> "info", op |-> "sched", msg |-> sched_msgs[i],
                      cpu |-> 0]]
            [] Head(ops) = "msr" ->
                 IF DOMAIN cpu_states /= {}
                 THEN <<[kind |-> "show", op |-> "msr", states |-> cpu_states]>>
                 ELSE <<>>
            [] Head(ops) = "pstate" ->
                 IF ps_enabled /= "None"
                 THEN <<[kind |-> "show", op |-> "pstate", states |-> ps_enabled]>>
                 ELSE <<>>)
         \o show_lines(Tail(ops))

\* System.main: "if self.errors: print(); for msg in self.errors: print(...)".
error_lines(errs) ==
    IF errs = <<>> THEN <<>>
    ELSE <<[kind |-> "blank"]>> \o
         [i \in 1..Len(errs) |-> [kind |-> "ERROR", msg |-> errs[i]]]

\* System.main after the read loop: the blank line after the messages, the
\* show() of every operation, then the errors.
ShowAndReport ==
    /\ sys_pc = "show"
    /\ LET lines == show_lines(operations)
       IN  /\ printed' = printed
                 \o (IF has_messages THEN <<[kind |-> "blank"]>> ELSE <<>>)
                 \o lines
                 \o error_lines(errors)
           /\ has_messages' =
                 (has_messages \/ \E i \in 1..Len(lines) : lines[i].kind = "info")
    /\ sys_pc' = "end"
    /\ UNCHANGED <<sys_env, msr, no_turbo, sys_op, sys_cpu, cpu_states,
                   ps_enabled, sched_msgs, errors, cmds, ps_writes, ps_calls>>
    /\ UNCHANGED not_sys_vars

NextSys ==
    \/ SkipTuneReset
    \/ SchedulerTuneReset
    \/ MsrWrite
    \/ MsrWriteCpu
    \/ PstateTuneReset
    \/ SchedulerRead
    \/ MsrRead
    \/ MsrReadCpu
    \/ PstateRead
    \/ ShowAndReport

SysSpec == InitSys /\ [][NextSys]_vars

\* The "ERROR: ..." lines printed so far.
ErrorLinesPrinted == SelectSeq(printed, LAMBDA l : l.kind = "ERROR")

\* C12: when System.main has ended, every error recorded through
\* System.error() has been printed as an "ERROR: ..." line, in the order
\* recorded.
C12_RecordedErrorsPrinted ==
    sys_pc \in {"end", "exit"} =>
        ErrorLinesPrinted =
            [i \in 1..Len(errors) |-> [kind |-> "ERROR", msg |-> errors[i]]]

\* Whether cmds[k] is the rdmsr of write_cpu (the whole register is read).
IsWriteCpuRead(k) == cmds[k].cmd = "rdmsr" /\ cmds[k].bitfield = <<>>

\* Whether the rdmsr cmds[k] gave a value to read_msr.
ReadSucceeded(k) == cmds[k].exitcode = 0 /\ cmds[k].stdout /= <<>>

\* C15: every wrmsr of write_cpu follows a successful rdmsr of the same CPU
\* and writes the value read with bit 38 alone changed, set for tune and
\* cleared for reset; no wrmsr follows a failed read or a read that shows
\* bit 38 as requested.
C15_WriteCpuChangesBit38Only ==
    /\ \A k \in 1..Len(cmds) :
          cmds[k].cmd = "wrmsr" =>
              /\ k > 1
              /\ IsWriteCpuRead(k - 1)
              /\ ReadSucceeded(k - 1)
              /\ cmds[k - 1].cpu = cmds[k].cpu
              /\ LET bit == MSR_IA32_MISC_ENABLE_TURBO_DISABLE_BIT
                     read == from_hex(cmds[k - 1].stdout)
                     written == from_hex(cmds[k].arg)
                 IN  /\ written \ {bit} = read \ {bit}
                     /\ written /= read
                     /\ (bit \in written) <=> ~write_enabled
    /\ \A k \in 1..Len(cmds) :
          (/\ IsWriteCpuRead(k)
           /\ \/ ~ReadSucceeded(k)
              \/ (MSR_IA32_MISC_ENABLE_TURBO_DISABLE_BIT
                     \in from_hex(cmds[k].stdout)) <=> ~write_enabled)
             => (k = Len(cmds) \/ cmds[k + 1].cmd /= "wrmsr")

C15_Witness ==
    \E k \in 2..Len(cmds) :
        /\ cmds[k].cmd = "wrmsr"
        /\ cmds[k].exitcode = 0
        /\ 0 \in from_hex(cmds[k - 1].stdout)
        /\ 0 \in msr[cmds[k].cpu]
        /\ MSR_IA32_MISC_ENABLE_TURBO_DISABLE_BIT \in msr[cmds[k].cpu]

\* Whether every rdmsr and wrmsr run so far succeeded.
AllCommandsSucceeded ==
    \A k \in 1..Len(cmds) :
        /\ cmds[k].exitcode = 0
        /\ cmds[k].cmd = "rdmsr" => cmds[k].stdout /= <<>>

\* C17: with the MSR backend, when every rdmsr and wrmsr succeeded, at the
\* end of main('tune') cpu_states records every logical CPU as False and at
\* the end of main('reset') as True.
C17_ReportedStateIsRequested ==
    (/\ sys_pc = "end"
     /\ ~sys_env.pstate
     /\ sys_env.action \in {"tune", "reset"}
     /\ AllCommandsSucceeded)
        => /\ DOMAIN cpu_states = get_cpus
           /\ \A cpu \in get_cpus :
                 cpu_states[cpu] = (sys_env.action = "reset")

C17_Witness ==
    /\ sys_pc = "end"
    /\ ~sys_env.pstate
    /\ sys_env.action = "tune"
    /\ sys_env.cpu_count >= 2
    /\ AllCommandsSucceeded
    /\ \E k \in 1..Len(cmds) : cmds[k].cmd = "wrmsr"
    /\ \E k \in 1..Len(cmds) :
          /\ IsWriteCpuRead(k)
          /\ MSR_IA32_MISC_ENABLE_TURBO_DISABLE_BIT \in from_hex(cmds[k].stdout)
    /\ \A cpu \in get_cpus : cpu_states[cpu] = FALSE

\* ---------------------------------------------------------------------
\* TurboBoostIntelPstate driven call by call: read(), tune() and reset() in
\* any order on one operation object.

\* The number of calls made on the operation.
MaxCalls == 3

InitPstate ==
    /\ sys_env \in [action : {"calls"}, writable : BOOLEAN]
    /\ no_turbo \in {"0", "1", ""}
    /\ ps_enabled = "None"
    /\ ps_writes = <<>>
    /\ ps_calls = 0
    /\ errors = <<>>
    /\ printed = <<>>
    /\ has_messages = FALSE
    /\ msr = <<>> /\ sys_pc = "calls" /\ sys_op = 0 /\ sys_cpu = 0
    /\ cpu_states = <<>> /\ sched_msgs = <<>> /\ cmds = <<>>
    /\ MainIdle /\ SlowIdle /\ MetaIdle /\ ConvIdle

\* What a call on the pstate operation leaves alone.
pstate_frame ==
    /\ UNCHANGED <<sys_env, msr, sys_pc, sys_op, sys_cpu, cpu_states,
                   sched_msgs, cmds>>
    /\ UNCHANGED not_sys_vars

\* TurboBoostIntelPstate.read().
PsRead ==
    /\ sys_pc = "calls"
    /\ ps_calls < MaxCalls
    /\ LET r == pstate_read(ps_enabled, no_turbo)
       IN  /\ ps_enabled' = r.enabled
           /\ errors' = errors \o r.errors
    /\ ps_calls' = ps_calls + 1
    /\ UNCHANGED <<no_turbo, ps_writes, printed, has_messages>>
    /\ pstate_frame

\* self.write(enabled), as tune() and reset() call it.
PsWrite(enabled) ==
    /\ sys_pc = "calls"
    /\ ps_calls < MaxCalls
    /\ LET r == pstate_write(enabled)
       IN  /\ ps_enabled' = r.enabled
           /\ no_turbo' = r.no_turbo
           /\ ps_writes' = ps_writes \o r.writes
           /\ errors' = errors \o r.errors
           /\ printed' = printed \o r.info
           /\ has_messages' = (has_messages \/ r.info /= <<>>)
    /\ ps_calls' = ps_calls + 1
    /\ pstate_frame

\* TurboBoostIntelPstate.tune(): self.write(False).
PsTune ==
    /\ sys_pc = "calls"
    /\ PsWrite(FALSE)

\* TurboBoostIntelPstate.reset(): self.write(True).
PsReset ==
    /\ sys_pc = "calls"
    /\ PsWrite(TRUE)

NextPstate ==
    \/ PsRead
    \/ PsTune
    \/ PsReset

PstateSpec == InitPstate /\ [][NextPstate]_vars

\* C16: write(enabled) never writes into no_turbo the content the file
\* already holds, that is, never writes when the driver's state is already
\* the requested one.
C16_NoWriteWhenAlreadySet ==
    \A k \in 1..Len(ps_writes) : ps_writes[k].content /= ps_writes[k].before

\* ---------------------------------------------------------------------
\* The slowest command.

\* The values of the -n option (type=int, default 5).
SlowestNs == {-1, 0, 2, 5}

\* bench.get_total_duration(), by benchmark; two benchmarks of one suite
\* may take the same time.
get_total_duration(bench) == (bench.key * 2) % 3

\* benchs.sort(key=lambda item: item[0], reverse=True): the position of
\* benchs[i] in the sorted list.  The sort is stable, also when reversed.
sort_rank(benchs, i) ==
    1 + Cardinality({j \in 1..Len(benchs) :
            \/ get_total_duration(benchs[j]) > get_total_duration(benchs[i])
            \/ /\ get_total_duration(benchs[j]) = get_total_duration(benchs[i])
               /\ j < i})

\* The benchmarks sorted by decreasing total duration.
sort_reverse(benchs) ==
    [r \in 1..Len(benchs) |->
        benchs[CHOOSE i \in 1..Len(benchs) : sort_rank(benchs, i) = r]]

\* The Python slice seq[:n].
slice_to(seq, n) ==
    LET stop == IF n >= 0 THEN (IF n < Len(seq) THEN n ELSE Len(seq))
                ELSE (IF Len(seq) + n > 0 THEN Len(seq) + n ELSE 0)
    IN  SubSeq(seq, 1, stop)

\* The lines cmd_slowest prints for one suite.
slowest_lines(suite, nslowest) ==
    LET benchs == slice_to(sort_reverse(suite.benchmarks), nslowest)
    IN  [index \in 1..Len(benchs) |->
            [index |-> index,
             name |-> get_benchmark_name(benchs[index]),
             duration |-> get_total_duration(benchs[index])]]

InitSlow ==
    /\ args \in [action : {"slowest"},
                 n : SlowestNs,
                 name : NameOptions,
                 filenames : SeqsUpTo(Filenames, MaxSuites)]
    /\ suites = <<>>
    /\ pc = "load"
    /\ exit_status = 0
    /\ stderr = <<>>
    /\ gen = NoGen
    /\ yielded = <<>>
    /\ ignored = <<>>
    /\ groups = <<>>
    /\ compare_called = FALSE
    /\ by_speed = FALSE
    /\ OtherIdle

\* cmd_slowest(args), after load_benchmarks(args).
CmdSlowest ==
    /\ pc = "cmd"
    /\ args.action = "slowest"
    /\ slowest_out' =
          [i \in 1..Len(suites) |->
              [title |-> IF get_nsuite(suites) > 1
                         THEN <<format_filename_func(suites)[suites[i].filename]>>
                         ELSE <<>>,
               lines |-> slowest_lines(suites[i], args.n)]]
    /\ pc' = "done"
    /\ UNCHANGED <<args, suites, exit_status, stderr, gen, yielded, ignored,
                   groups, compare_called, by_speed>>
    /\ UNCHANGED <<meta_vars, conv_vars, sys_vars>>

NextSlow ==
    \/ LoadBenchmarkSuite
    \/ IncludeBenchmark
    \/ CmdSlowest

SlowSpec == InitSlow /\ [][NextSlow]_vars

\* The smaller of two integers.
Min(a, b) == IF a < b THEN a ELSE b

\* The total durations of the benchmarks of suite i that are not listed.
UnlistedDurations(i) ==
    {get_total_duration(suites[i].benchmarks[k]) :
        k \in {k \in 1..Len(suites[i].benchmarks) :
                 \A l \in 1..Len(slowest_out[i].lines) :
                     slowest_out[i].lines[l].name
                         /= get_benchmark_name(suites[i].benchmarks[k])}}

\* C13: for each suite, slowest lists exactly min(n, number of benchmarks)
\* benchmarks, numbered from 1, by non-increasing total duration, and no
\* unlisted benchmark of the suite took longer than a listed one.
C13_SlowestListsMinOfNAndCount ==
    pc = "done" /\ args.action = "slowest" =>
        /\ Len(slowest_out) = Len(suites)
        /\ \A i \in 1..Len(slowest_out) :
              LET lines == slowest_out[i].lines
              IN  /\ Len(lines) = Min(args.n, Len(suites[i].benchmarks))
                  /\ \A l \in 1..Len(lines) : lines[l].index = l
                  /\ \A l \in 1..(Len(lines) - 1) :
                        lines[l].duration >= lines[l + 1].duration
                  /\ \A l \in 1..Len(lines) :
                        \A d \in UnlistedDurations(i) : d <= lines[l].duration

\* ---------------------------------------------------------------------
\* The convert command.

\* The values of --include-runs and --exclude-runs: not given, a run list,
\* a text that is no run list.
RunLists == {None, <<"1">>, <<"x">>}

\* parse_run_list(runs) raises ValueError on a text that is no run list.
parse_run_list_raises(runs) == runs = <<"x">>

\* The input files of convert and the file of --add.
ConvFilenames == {<<"a", ".", "j">>, <<"a", ".", "t">>, <<"b", ".", "j">>}

ConvArgs ==
    [input_filename : ConvFilenames,
     add : {None, <<"d", "/", "b">>},
     include_benchmark : NameOptions,
     exclude_benchmark : NameOptions,
     include_runs : RunLists,
     exclude_runs : {None, <<"1">>},
     remove_warmups : BOOLEAN,
     update_metadata : {None, <<"k", "=", "v">>},
     extract_metadata : {None, <<"k">>},
     remove_all_metadata : BOOLEAN,
     remove_outliers : BOOLEAN,
     output_filename : {None, <<"o">>}]

\* suite._add_benchmark_runs(bench): the runs go to the benchmark of the
\* same name, or the benchmark is added to the suite.
add_benchmark_runs(suite, bench) ==
    IF \E i \in 1..Len(suite.benchmarks) :
           get_name(suite.benchmarks[i]) = get_name(bench)
    THEN suite
    ELSE [suite EXCEPT !.benchmarks = Append(suite.benchmarks, bench)]

RECURSIVE add_all(_, _, _)
\* for bench in suite2.get_benchmarks(): suite._add_benchmark_runs(bench)
add_all(suite, benchs, i) ==
    IF i > Len(benchs) THEN suite
    ELSE add_all(add_benchmark_runs(suite, benchs[i]), benchs, i + 1)

\* suite._convert_exclude_benchmark(name) raises ValueError when no
\* benchmark would be left.
exclude_raises(suite, name) ==
    \A i \in 1..Len(suite.benchmarks) : get_name(suite.benchmarks[i]) = name

convert_exclude_benchmark(suite, name) ==
    [suite EXCEPT !.benchmarks =
        SelectSeq(suite.benchmarks, LAMBDA b : get_name(b) /= name)]

\* The steps of cmd_convert, in the order of the code.
ConvSteps == <<"add", "benchmark", "runs", "remove_warmups",
               "update_metadata", "extract_metadata",
               "remove_all_metadata", "remove_outliers", "dump">>

\* The step after a step.
next_step(step) ==
    ConvSteps[1 + CHOOSE i \in 1..(Len(ConvSteps) - 1) : ConvSteps[i] = step]

\* Mutation of after_step: a failing step is noted and the command goes on.
after_step_goes_on(step, outcome) ==
    [pc |-> next_step(step),
     failed |-> IF outcome = "ok" THEN "" ELSE step]

\* Where cmd_convert goes after a step: on, to sys.exit(1) from an except
\* clause, or out with the exception that `raise` lets through.
after_step(step, outcome) ==
    IF outcome = "ok" THEN [pc |-> next_step(step), failed |-> ""]
    ELSE IF outcome = "TypeError" THEN [pc |-> "raised", failed |-> step]
    ELSE [pc |-> "exit", failed |-> step]

\* The steps the options of a command line make cmd_convert run.
requested_steps(a) ==
    (IF Truthy(a.add) THEN {"add"} ELSE {})
    \cup (IF Truthy(a.include_benchmark) \/ Truthy(a.exclude_benchmark)
          THEN {"benchmark"} ELSE {})
    \cup (IF Truthy(a.include_runs) \/ Truthy(a.exclude_runs)
          THEN {"runs"} ELSE {})
    \cup (IF a.remove_warmups THEN {"remove_warmups"} ELSE {})
    \cup (IF Truthy(a.update_metadata) THEN {"update_metadata"} ELSE {})
    \cup (IF Truthy(a.extract_metadata) THEN {"extract_metadata"} ELSE {})
    \cup (IF a.remove_all_metadata THEN {"remove_all_metadata"} ELSE {})
    \cup (IF a.remove_outliers THEN {"remove_outliers"} ELSE {})

InitConv ==
    /\ conv_args \in ConvArgs
    /\ conv_suite = <<>>
    /\ conv_pc = "load"
    /\ conv_steps = <<>>
    /\ conv_failed = ""
    /\ conv_written = FALSE
    /\ MainIdle /\ SlowIdle /\ MetaIdle /\ SysIdle

\* What cmd_convert leaves alone.
conv_frame ==
    /\ UNCHANGED <<conv_args, conv_written>>
    /\ UNCHANGED <<main_vars, slow_vars, meta_vars, sys_vars>>

\* One step of cmd_convert: skipped when its option is not given; else it
\* gives the suite `suite` or ends the command, by its outcome.
ConvStep(step, requested, outcome, suite) ==
    LET r == after_step(step, IF requested THEN outcome ELSE "ok")
        done == requested /\ outcome = "ok"
    IN  /\ conv_suite' = IF done THEN suite ELSE conv_suite
        /\ conv_steps' = IF done THEN Append(conv_steps, step) ELSE conv_steps
        /\ conv_failed' = IF r.failed /= "" THEN r.failed ELSE conv_failed
        /\ conv_pc' = r.pc
        /\ conv_frame

\* suite = perf.BenchmarkSuite.load(args.input_filename)
ConvLoad ==
    /\ conv_pc = "load"
    /\ conv_suite' = BenchmarkSuite_load(conv_args.input_filename, 1)
    /\ conv_pc' = "add"
    /\ UNCHANGED <<conv_steps, conv_failed>>
    /\ conv_frame

\* if args.add: ...
ConvAdd ==
    /\ conv_pc = "add"
    /\ ConvStep("add", Truthy(conv_args.add), "ok",
                add_all(conv_suite, FileBenchmarks(conv_args.add), 1))

\* if args.include_benchmark: ... elif args.exclude_benchmark: ...
ConvBenchmark ==
    /\ conv_pc = "benchmark"
    /\ IF Truthy(conv_args.include_benchmark)
       THEN LET name == conv_args.include_benchmark
            IN  ConvStep("benchmark", TRUE,
                         IF include_raises(conv_suite, name)
                         THEN "KeyError" ELSE "ok",
                         convert_include_benchmark(conv_suite, name))
       ELSE LET name == conv_args.exclude_benchmark
            IN  ConvStep("benchmark", Truthy(name),
                         IF exclude_raises(conv_suite, name)
                         THEN "ValueError" ELSE "ok",
                         convert_exclude_benchmark(conv_suite, name))

\* if args.include_runs or args.exclude_runs: ...; benchmark._filter_runs
\* raises ValueError when a benchmark is left with no run.
ConvRuns ==
    /\ conv_pc = "runs"
    /\ LET runs == IF Truthy(conv_args.include_runs)
                   THEN conv_args.include_runs ELSE conv_args.exclude_runs
       IN  \E filter \in {"ok", "ValueError"} :
               ConvStep("runs", Truthy(runs),
                        IF parse_run_list_raises(runs) THEN "ValueError"
                        ELSE filter,
                        conv_suite)

\* if args.remove_warmups: ...
ConvRemoveWarmups ==
    /\ conv_pc = "remove_warmups"
    /\ ConvStep("remove_warmups", conv_args.remove_warmups, "ok", conv_suite)

\* if args.update_metadata: ...
ConvUpdateMetadata ==
    /\ conv_pc = "update_metadata"
    /\ ConvStep("update_metadata", Truthy(conv_args.update_metadata), "ok",
                conv_suite)

\* if args.extract_metadata: ...; benchmark._extract_metadata raises
\* KeyError on a missing metadata, TypeError on one that is no integer.
ConvExtractMetadata ==
    /\ conv_pc = "extract_metadata"
    /\ \E outcome \in {"ok", "KeyError", "TypeError"} :
           ConvStep("extract_metadata", Truthy(conv_args.extract_metadata),
                    outcome, conv_suite)

\* if args.remove_all_metadata: ...
ConvRemoveAllMetadata ==
    /\ conv_pc = "remove_all_metadata"
    /\ ConvStep("remove_all_metadata", conv_args.remove_all_metadata, "ok",
                conv_suite)

\* if args.remove_outliers: ...; benchmark._remove_outliers raises
\* ValueError when no run is left.
ConvRemoveOutliers ==
    /\ conv_pc = "remove_outliers"
    /\ \E outcome \in {"ok", "ValueError"} :
           ConvStep("remove_outliers", conv_args.remove_outliers, outcome,
                    conv_suite)

\* suite.dump(args.output_filename or sys.stdout, compact=compact)
ConvDump ==
    /\ conv_pc = "dump"
    /\ conv_written' = TRUE
    /\ conv_steps' = Append(conv_steps, "dump")
    /\ conv_pc' = "done"
    /\ UNCHANGED <<conv_args, conv_suite, conv_failed>>
    /\ UNCHANGED <<main_vars, slow_vars, meta_vars, sys_vars>>

NextConv ==
    \/ ConvLoad
    \/ ConvAdd
    \/ ConvBenchmark
    \/ ConvRuns
    \/ ConvRemoveWarmups
    \/ ConvUpdateMetadata
    \/ ConvExtractMetadata
    \/ ConvRemoveAllMetadata
    \/ ConvRemoveOutliers
    \/ ConvDump

ConvSpec == InitConv /\ [][NextConv]_vars

\* C14: cmd_convert writes the output only when every step its options ask
\* for has been done, with dump as the last step; once a step has failed
\* the command has ended and nothing is written.
C14_OutputOnlyAfterAllSteps ==
    /\ conv_written =>
          /\ conv_failed = ""
          /\ conv_pc = "done"
          /\ requested_steps(conv_args) \subseteq Range(conv_steps)
          /\ conv_steps[Len(conv_steps)] = "dump"
          /\ \A k \in 1..(Len(conv_steps) - 1) : conv_steps[k] /= "dump"
    /\ conv_failed /= "" =>
          /\ ~conv_written
          /\ conv_pc \in {"exit", "raised"}
    /\ conv_pc \in {"exit", "raised"} => ~conv_written /\ conv_failed /= ""

C14_Witness ==
    /\ conv_written
    /\ Truthy(conv_args.include_benchmark)
    /\ Truthy(conv_args.include_runs)
    /\ Truthy(conv_args.extract_metadata)
    /\ conv_args.remove_outliers
    /\ Len(conv_suite.benchmarks) = 1
    /\ Len(conv_steps) >= 5

====
